---- MODULE Spec2Model ----
(***************************************************************************)
(* FaaS gateway (githyj-jang/faas-poc): callback registry, deployment      *)
(* orchestrator, route table, dispatcher and response cache.               *)
(*                                                                         *)
(* Every handler of the gateway is an `async def` whose database calls are *)
(* synchronous, so a handler runs without interleaving up to its first     *)
(* suspending await.  A build task is split where it waits for the         *)
(* external image build.                                                   *)
(***************************************************************************)
EXTENDS Naturals, Sequences, FiniteSets, Bags, TLC

(***************************************************************************)
(* Bounds of the model.                                                    *)
(***************************************************************************)
MaxId == 1
MaxTasks == 1
MaxRegIds == 3        \* ids of the registry-only specification
MaxRuns == 3          \* container runs of the executor specification

Ids == 1..MaxId

(***************************************************************************)
(* Input domains.  A path is the sequence of its characters; "a" stands    *)
(* for any name without a separator.                                       *)
(***************************************************************************)
Paths == { <<"a">>, <<"/", "a">> }
PathNames == { <<"a">> }
Methods == { "GET", "POST" }
Codes == { "v1", "v2" }
Envs == { "e1" }
Queries == { "q1" }
Bodies == { "{}", "not json" }
ContainerTypes == { "docker", "kube" }
Statuses == { "pending", "build", "deployed", "undeployed", "failed" }

(* An optional request field: {} is None, {x} is the value x. *)
Opt(S) == { {} } \cup { {x} : x \in S }
OrElse(o, default) == IF o = {} THEN default ELSE CHOOSE x \in o : TRUE

VARIABLES
    registry,                \* callback_info table: id -> row
    callback_map,            \* deploy.callback_map: path -> (method -> image)
    building_callbacks,      \* deploy.building_callbacks: id -> image
    tasks,                   \* scheduled/running _build_and_register_callback tasks (a bag)
    images,                  \* local image store: image name -> code built into it
    docker_cache,            \* api._docker_callback_cache
    kube_cache,              \* api._kube_callback_cache
    connected_websockets,    \* broadcast_utils.connected_websockets
    publishers,              \* running broadcast() calls: publisher -> frame
    received,                \* messages delivered to observers: {<<ws, message>>}
    ws_handlers,             \* deploy.ws_deploy handlers: ws -> "open" / "closed"
    containers,              \* `docker run` processes started by the executor
    tmp_dirs,                \* temporary build directories on disk
    builders,                \* running build_callback_image_background calls
    events,                  \* messages delivered through broadcast()
    last_call,               \* history: id -> last accepted Deploy/Undeploy
    kinds,                   \* history: route key -> target kind of the build
    deleted,                 \* history: route keys of deleted callbacks
    ret                      \* what the last handler or task step returned

(* the gateway proper, the build progress channel, the local executor *)
gatewayVars == << registry, callback_map, building_callbacks, tasks, images,
                  docker_cache, kube_cache >>
channelVars == << connected_websockets, publishers, received, ws_handlers >>
execVars == << containers >>
buildVars == << tmp_dirs, builders, events >>
historyVars == << last_call, kinds, deleted >>

vars == << gatewayVars, channelVars, execVars, buildVars, historyVars, ret >>

(***************************************************************************)
(* Pure helpers.                                                           *)
(***************************************************************************)

(* deploy.normalize_path: path.lstrip("/") *)
RECURSIVE LStrip(_)
LStrip(path) ==
    IF path # <<>> /\ Head(path) = "/" THEN LStrip(Tail(path)) ELSE path

(* Mutant of normalize_path: the separator is not stripped. *)
normalize_path_kept(path) == path

normalize_path(path) == IF path = <<>> THEN path ELSE LStrip(path)

(* f"callback_{callback_id}".lower() *)
ImageName(callback_id) == << "callback_", callback_id >>

(* dict helpers *)
DictSet(d, k, v) == (k :> v) @@ d
DictDel(d, k) == [x \in (DOMAIN d) \ {k} |-> d[x]]
EmptyDict == << >>

(* Mutant of RemoveRoute: a path whose method is not registered is         *)
(* dropped as a whole.                                                     *)
RemoveRoute_drops_path(map, path, method) ==
    IF path \in DOMAIN map
    THEN IF method \in DOMAIN map[path]
         THEN LET left == DictDel(map[path], method)
              IN  IF left = EmptyDict THEN DictDel(map, path)
                                      ELSE DictSet(map, path, left)
         ELSE DictDel(map, path)
    ELSE map

(* `del callback_map[path][method]` and, when the path is left empty,     *)
(* `del callback_map[path]`, guarded by the membership test that precedes  *)
(* it in deploy_callback_docker and delete_callback.                       *)
RemoveRoute(map, path, method) ==
    IF path \in DOMAIN map /\ method \in DOMAIN map[path]
    THEN LET left == DictDel(map[path], method)
         IN  IF left = EmptyDict THEN DictDel(map, path)
             ELSE DictSet(map, path, left)
    ELSE map

(* Mutant of UpsertRoute: the path is given a fresh method dict.           *)
UpsertRoute_fresh_dict(map, path, method, image) ==
    DictSet(map, path, DictSet(EmptyDict, method, image))

(* callback_map[normalized_path][method] = image, creating the path *)
UpsertRoute(map, path, method, image) ==
    LET old == IF path \in DOMAIN map THEN map[path] ELSE EmptyDict
    IN  DictSet(map, path, DictSet(old, method, image))


(***************************************************************************)
(* The registry (CallbackRepository over the callback_info table).         *)
(***************************************************************************)

Row(path, method, code, env, status) ==
    [path |-> path, method |-> method, code |-> code, env |-> env,
     status |-> status]

(* callback_id is an INTEGER PRIMARY KEY without AUTOINCREMENT: a new row  *)
(* gets the largest id in use plus one.                                    *)
NextId(reg) ==
    IF DOMAIN reg = {} THEN 1
    ELSE (CHOOSE i \in DOMAIN reg : \A j \in DOMAIN reg : j <= i) + 1

(* The rows `db.query(CallbackInfo).filter(CallbackInfo.path == path)`     *)
(* selects; .first() returns one of them (no ORDER BY), or None.           *)
RowsWithPath(reg, path) == { i \in DOMAIN reg : reg[i].path = path }

(* CallbackRepository.get_callback_by_path: the filter is the Python       *)
(* expression `CallbackInfo.path == path and CallbackInfo.method == method`.*)
(* `and` takes the truth value of its left operand, which for a column     *)
(* comparison is False, and yields that operand: the query filters on the  *)
(* path alone and `method` is not used.                                    *)
get_callback_by_path(reg, path, method) == RowsWithPath(reg, path)

(* The uq_path_method constraint of the table. *)
UniquePathMethod(reg) ==
    \A i, j \in DOMAIN reg :
        (reg[i].path = reg[j].path /\ reg[i].method = reg[j].method) => i = j

(* CallbackRepository.update_callback(db, id, status=...): a missing row   *)
(* returns None and nothing is written.                                    *)
SetStatus(reg, callback_id, status) ==
    IF callback_id \in DOMAIN reg
    THEN [reg EXCEPT ![callback_id].status = status]
    ELSE reg

(***************************************************************************)
(* Initial state: the process has just started on an empty database.       *)
(***************************************************************************)
Init ==
    /\ registry = EmptyDict
    /\ callback_map = EmptyDict
    /\ building_callbacks = EmptyDict
    /\ tasks = EmptyBag
    /\ images = EmptyDict
    /\ docker_cache = EmptyDict
    /\ kube_cache = EmptyDict
    /\ connected_websockets = {}
    /\ publishers = EmptyDict
    /\ received = {}
    /\ ws_handlers = EmptyDict
    /\ containers = EmptyDict
    /\ tmp_dirs = {}
    /\ builders = {}
    /\ events = {}
    /\ last_call = EmptyDict
    /\ kinds = EmptyDict
    /\ deleted = {}
    /\ ret = [op |-> "init"]

(* api.clear_api_caches *)
ClearedCache == EmptyDict

(* Mutant of register_callback: the table has no unique constraint on     *)
(* (path, method); only the first-row check guards the insert.             *)
register_callback_unconstrained(path, method, code, env) ==
    /\ \E existing \in Opt(RowsWithPath(registry, path)) :
          /\ (existing = {}) <=> (RowsWithPath(registry, path) = {})
          /\ IF existing # {} /\ registry[OrElse(existing, 0)].method = method
             THEN /\ ret' = [op |-> "register", code |-> 409,
                             path |-> path, method |-> method]
                  /\ UNCHANGED registry
             ELSE LET id == NextId(registry)
                  IN  /\ registry' = DictSet(registry, id,
                                     Row(path, method, code, env, "pending"))
                      /\ ret' = [op |-> "register", code |-> 200,
                                 path |-> path, method |-> method, id |-> id]
    /\ UNCHANGED << callback_map, building_callbacks, tasks, images,
                    docker_cache, kube_cache >>

(***************************************************************************)
(* POST /callbacks/ : register_callback -> CallbackRepository.create_callback *)
(***************************************************************************)
register_callback(path, method, code, env) ==
    /\ \E existing \in Opt(RowsWithPath(registry, path)) :
          \* .first(): None only when no row has the path
          /\ (existing = {}) <=> (RowsWithPath(registry, path) = {})
          /\ IF existing # {} /\ registry[OrElse(existing, 0)].method = method
             THEN \* ValueError -> 409
                  /\ ret' = [op |-> "register", code |-> 409,
                             path |-> path, method |-> method]
                  /\ UNCHANGED registry
             ELSE LET id == NextId(registry)
                      reg == DictSet(registry, id,
                                     Row(path, method, code, env, "pending"))
                  IN  IF UniquePathMethod(reg)
                      THEN /\ registry' = reg
                           /\ ret' = [op |-> "register", code |-> 200,
                                      path |-> path, method |-> method,
                                      id |-> id]
                      ELSE \* IntegrityError on commit, not caught -> 500
                           /\ ret' = [op |-> "register", code |-> 500,
                                      path |-> path, method |-> method]
                           /\ UNCHANGED registry
    /\ UNCHANGED << callback_map, building_callbacks, tasks, images,
                    docker_cache, kube_cache >>

(***************************************************************************)
(* PUT /callbacks/{id} : update_callback                                   *)
(***************************************************************************)
update_callback(callback_id, req) ==
    IF callback_id \notin DOMAIN registry
    THEN /\ ret' = [op |-> "update", id |-> callback_id, code |-> 404]
         /\ UNCHANGED << registry, callback_map, building_callbacks, tasks,
                         images, docker_cache, kube_cache >>
    ELSE LET origin == registry[callback_id]
             path == OrElse(req.path, origin.path)
             method == OrElse(req.method, origin.method)
             \* router check against the route table, keyed by the raw path
             routed == /\ path \in DOMAIN callback_map
                       /\ callback_map[path] # EmptyDict
                       /\ method \in DOMAIN callback_map[path]
                       /\ (origin.path # path \/ origin.method # method)
             \* repository check, only when path or method is given
             duplicate == /\ (req.path # {} \/ req.method # {})
                          /\ \E j \in DOMAIN registry :
                                /\ j # callback_id
                                /\ registry[j].path = path
                                /\ registry[j].method = method
         IN  IF routed \/ duplicate
             THEN \* ValueError -> 409
                  /\ ret' = [op |-> "update", id |-> callback_id, code |-> 409]
                  /\ UNCHANGED << registry, callback_map, building_callbacks,
                                  tasks, images, docker_cache, kube_cache >>
             ELSE /\ registry' = [registry EXCEPT ![callback_id] =
                        Row(path, method,
                            OrElse(req.code, origin.code),
                            OrElse(req.env, origin.env),
                            OrElse(req.status, origin.status))]
                  /\ docker_cache' = ClearedCache
                  /\ kube_cache' = ClearedCache
                  /\ ret' = [op |-> "update", id |-> callback_id, code |-> 200]
                  /\ UNCHANGED << callback_map, building_callbacks, tasks,
                                  images >>

UpdateRequests ==
    { r \in [path : Opt(Paths), method : Opt(Methods), code : Opt(Codes),
             env : Opt(Envs), status : Opt(Statuses)] :
        Cardinality({ f \in {"path", "method", "code", "env", "status"} :
                        r[f] # {} }) <= 1 }

(* Mutant of delete_callback: the status is not looked at.                 *)
delete_callback_any_status(callback_id) ==
    IF callback_id \notin DOMAIN registry
    THEN /\ ret' = [op |-> "delete", id |-> callback_id, code |-> 404]
         /\ UNCHANGED << registry, callback_map, building_callbacks, tasks,
                         images, docker_cache, kube_cache >>
    ELSE LET callback == registry[callback_id]
         IN  /\ registry' = DictDel(registry, callback_id)
             /\ callback_map' =
                   RemoveRoute(callback_map, callback.path, callback.method)
             /\ IF /\ callback.path \in DOMAIN callback_map
                   /\ callback.method \in DOMAIN callback_map[callback.path]
                THEN /\ docker_cache' = ClearedCache
                     /\ kube_cache' = ClearedCache
                ELSE UNCHANGED << docker_cache, kube_cache >>
             /\ ret' = [op |-> "delete", id |-> callback_id, code |-> 200,
                        path |-> callback.path, method |-> callback.method]
             /\ UNCHANGED << building_callbacks, tasks, images >>

(***************************************************************************)
(* DELETE /callbacks/{id} : delete_callback                                *)
(***************************************************************************)
delete_callback(callback_id) ==
    IF callback_id \notin DOMAIN registry
    THEN /\ ret' = [op |-> "delete", id |-> callback_id, code |-> 404]
         /\ UNCHANGED << registry, callback_map, building_callbacks, tasks,
                         images, docker_cache, kube_cache >>
    ELSE LET callback == registry[callback_id]
         IN  IF callback.status = "build"
             THEN /\ ret' = [op |-> "delete", id |-> callback_id, code |-> 400]
                  /\ UNCHANGED << registry, callback_map, building_callbacks,
                                  tasks, images, docker_cache, kube_cache >>
             ELSE /\ registry' = DictDel(registry, callback_id)
                  /\ callback_map' =
                        RemoveRoute(callback_map, callback.path, callback.method)
                  /\ IF /\ callback.path \in DOMAIN callback_map
                        /\ callback.method \in DOMAIN callback_map[callback.path]
                     THEN /\ docker_cache' = ClearedCache
                          /\ kube_cache' = ClearedCache
                     ELSE UNCHANGED << docker_cache, kube_cache >>
                  /\ ret' = [op |-> "delete", id |-> callback_id, code |-> 200,
                             path |-> callback.path, method |-> callback.method]
                  /\ UNCHANGED << building_callbacks, tasks, images >>

(***************************************************************************)
(* DELETE /chatroom/{chat_id} for a chat room linked to callback_id:       *)
(* ChatRoomRepository.delete_chatroom deletes the linked callback row and  *)
(* touches neither the route table nor the caches.  Chat rooms are created *)
(* with any callback_id on request, so the link is an input.               *)
(***************************************************************************)
delete_chatroom(callback_id) ==
    /\ callback_id \in DOMAIN registry
    /\ registry' = DictDel(registry, callback_id)
    /\ ret' = [op |-> "delete_chatroom", id |-> callback_id]
    /\ UNCHANGED << callback_map, building_callbacks, tasks, images,
                    docker_cache, kube_cache >>


(***************************************************************************)
(* POST /deploy/ : deploy_callback_docker.  req.status False is Undeploy,  *)
(* True is Deploy.                                                         *)
(***************************************************************************)
Task(callback_id, path, method, code, c_type, pc) ==
    [id |-> callback_id, path |-> path, method |-> method, code |-> code,
     c_type |-> c_type, pc |-> pc]

(* Mutant of undeploy_callback: the existence check is missing and an     *)
(* unknown id is answered like a callback with nothing to remove.          *)
undeploy_callback_unchecked(callback_id) ==
    IF callback_id \notin DOMAIN registry
    THEN /\ ret' = [op |-> "undeploy", id |-> callback_id, code |-> 200]
         /\ UNCHANGED << registry, callback_map, building_callbacks, tasks,
                         images, docker_cache, kube_cache >>
    ELSE LET callback == registry[callback_id]
         IN  /\ callback_map' =
                    RemoveRoute(callback_map, callback.path, callback.method)
             /\ registry' = SetStatus(registry, callback_id, "undeployed")
             /\ ret' = [op |-> "undeploy", id |-> callback_id, code |-> 200,
                        path |-> callback.path, method |-> callback.method,
                        status |-> registry'[callback_id].status]
             /\ UNCHANGED << building_callbacks, tasks, images, docker_cache,
                             kube_cache >>

undeploy_callback(callback_id) ==
    IF callback_id \notin DOMAIN registry
    THEN /\ ret' = [op |-> "undeploy", id |-> callback_id, code |-> 404]
         /\ UNCHANGED << registry, callback_map, building_callbacks, tasks,
                         images, docker_cache, kube_cache >>
    ELSE LET callback == registry[callback_id]
         IN  /\ callback_map' =
                    RemoveRoute(callback_map, callback.path, callback.method)
             /\ registry' = SetStatus(registry, callback_id, "undeployed")
             /\ ret' = [op |-> "undeploy", id |-> callback_id, code |-> 200,
                        path |-> callback.path, method |-> callback.method,
                        status |-> registry'[callback_id].status]
             /\ UNCHANGED << building_callbacks, tasks, images, docker_cache,
                             kube_cache >>

(* Mutant of deploy_callback_docker: the build is awaited inside the       *)
(* request instead of being scheduled.                                     *)
deploy_callback_awaited(callback_id, c_type) ==
    IF callback_id \notin DOMAIN registry
    THEN /\ ret' = [op |-> "deploy", id |-> callback_id, code |-> 404]
         /\ UNCHANGED << registry, callback_map, building_callbacks, tasks,
                         images, docker_cache, kube_cache >>
    ELSE LET callback == registry[callback_id]
         IN  /\ registry' = SetStatus(registry, callback_id, "deployed")
             /\ callback_map' = UpsertRoute(callback_map,
                    normalize_path(callback.path), callback.method,
                    ImageName(callback_id))
             /\ images' = DictSet(images, ImageName(callback_id), callback.code)
             /\ ret' = [op |-> "deploy", id |-> callback_id, code |-> 200,
                        status |-> registry'[callback_id].status]
             /\ UNCHANGED << building_callbacks, tasks, docker_cache,
                             kube_cache >>

deploy_callback_docker(callback_id, c_type) ==
    IF callback_id \notin DOMAIN registry
    THEN /\ ret' = [op |-> "deploy", id |-> callback_id, code |-> 404]
         /\ UNCHANGED << registry, callback_map, building_callbacks, tasks,
                         images, docker_cache, kube_cache >>
    ELSE LET callback == registry[callback_id]
         IN  /\ registry' = SetStatus(registry, callback_id, "build")
             \* background_tasks.add_task: runs after the response is sent
             /\ tasks' = tasks (+) SetToBag({
                    Task(callback_id, callback.path, callback.method,
                         callback.code, c_type, "queued") })
             /\ ret' = [op |-> "deploy", id |-> callback_id, code |-> 200,
                        status |-> registry'[callback_id].status]
             /\ UNCHANGED << callback_map, building_callbacks, images,
                             docker_cache, kube_cache >>

(***************************************************************************)
(* broadcast_utils.broadcast iterates the global set connected_websockets  *)
(* with an await inside the loop and removes dead sockets afterwards: it   *)
(* raises RuntimeError when a socket connects or disconnects while it is   *)
(* suspended, and KeyError when a dead socket was removed meanwhile.  The  *)
(* subscribers are the environment's, so either outcome can occur.         *)
(***************************************************************************)
BroadcastOutcomes == { "delivered", "raised" }

(* kube_utils.build_kube_callback_image is a synchronous function of       *)
(* (callback_id, code, runtime_type); the builder calls it as              *)
(* `await build_kube_callback_image(image_name)`, which raises TypeError.  *)
build_kube_callback_image(image_name) == "TypeError"

(* First step of the task: up to the point where the builder waits for the *)
(* external `docker build`.                                                *)
StartOutcomes == { "proceed", "broadcast_raised", "unknown_runtime" }

BuildStart(t, outcome) ==
    /\ t \in BagToSet(tasks)
    /\ t.pc = "queued"
    /\ IF outcome = "proceed"
       THEN /\ building_callbacks' =
                   DictSet(building_callbacks, t.id, ImageName(t.id))
            /\ tasks' = (tasks (-) SetToBag({t}))
                        (+) SetToBag({ [t EXCEPT !.pc = "building"] })
            /\ ret' = [op |-> "build", id |-> t.id, result |-> "running"]
            /\ UNCHANGED registry
       ELSE \* the start broadcast raised (outside the builder's try), or
            \* the runtime directory does not exist: status failed; the
            \* finally clause drops the building entry
            /\ building_callbacks' = DictDel(building_callbacks, t.id)
            /\ tasks' = tasks (-) SetToBag({t})
            /\ registry' = SetStatus(registry, t.id, "failed")
            /\ ret' = [op |-> "build", id |-> t.id,
                       result |-> IF outcome = "broadcast_raised"
                                  THEN "exception" ELSE "failed",
                       path |-> t.path, method |-> t.method]
    /\ UNCHANGED << callback_map, images, docker_cache, kube_cache >>

(* What build_callback_image_background returns once `docker build` has    *)
(* ended.  exit_code is the build's exit code; `raised` says an exception  *)
(* was raised inside the try after the build (publishing an event).        *)
BuildResult(c_type, exit_code, raised) ==
    IF c_type = "kube" /\ build_kube_callback_image("image") = "TypeError"
    THEN "failed"
    ELSE IF exit_code # 0 THEN "failed"
    ELSE IF raised THEN "failed"
    ELSE "success"

(* Mutant of BuildFinish: the route is registered before the result is     *)
(* looked at.                                                              *)
BuildFinish_register_first(t, exit_code, raised) ==
    /\ t \in BagToSet(tasks)
    /\ t.pc = "building"
    /\ LET result == BuildResult(t.c_type, exit_code, raised)
           image_name == ImageName(t.id)
       IN  /\ images' = IF exit_code = 0
                        THEN DictSet(images, image_name, t.code)
                        ELSE images
           /\ callback_map' =
                 UpsertRoute(callback_map, normalize_path(t.path),
                             t.method, image_name)
           /\ registry' = SetStatus(registry, t.id,
                 IF result = "success" THEN "deployed" ELSE "failed")
           /\ ret' = [op |-> "build", id |-> t.id, result |-> result,
                      path |-> t.path, method |-> t.method]
    /\ building_callbacks' = DictDel(building_callbacks, t.id)
    /\ tasks' = tasks (-) SetToBag({t})
    /\ UNCHANGED << docker_cache, kube_cache >>

(* Second step of the task: `docker build` has ended; the import, the      *)
(* result, the route table, the status and the finally clause.             *)
BuildFinish(t, exit_code, raised) ==
    /\ t \in BagToSet(tasks)
    /\ t.pc = "building"
    /\ LET result == BuildResult(t.c_type, exit_code, raised)
           image_name == ImageName(t.id)
       IN  /\ images' = IF exit_code = 0
                        THEN DictSet(images, image_name, t.code)
                        ELSE images
           /\ IF result = "success"
              THEN /\ callback_map' =
                        UpsertRoute(callback_map, normalize_path(t.path),
                                    t.method, image_name)
                   /\ registry' = SetStatus(registry, t.id, "deployed")
              ELSE /\ registry' = SetStatus(registry, t.id, "failed")
                   /\ UNCHANGED callback_map
           /\ ret' = [op |-> "build", id |-> t.id, result |-> result,
                      path |-> t.path, method |-> t.method]
    /\ building_callbacks' = DictDel(building_callbacks, t.id)
    /\ tasks' = tasks (-) SetToBag({t})
    /\ UNCHANGED << docker_cache, kube_cache >>


(***************************************************************************)
(* The dispatcher: /api/{path_name} (execute_callback) and                 *)
(* /api/kube/{path_name} (execute_kube_callback).                          *)
(***************************************************************************)

(* `await request.json()` for POST and PUT only; {} when it fails *)
ValidJson == { "{}", "{k:1}" }
ParseBody(method, body) ==
    IF method \in { "POST", "PUT" }
    THEN IF body \in ValidJson THEN body ELSE "{}"
    ELSE "{}"

(* api._generate_cache_key: the md5 of the JSON of the four parts, the     *)
(* query items sorted and the body dumped with sorted keys; a query is a   *)
(* dict here, so the order of its items is already immaterial.             *)
_generate_cache_key(path_name, method, query_params, body_data) ==
    << path_name, method, query_params, body_data >>

(* Mutant of RouteCheck: the registry is consulted before the route table. *)
RouteCheck_registry_first(path_name, method) ==
    IF get_callback_by_path(registry, <<"/">> \o path_name, method) = {}
    THEN 405
    ELSE IF path_name \notin DOMAIN callback_map THEN 404
    ELSE IF method \notin DOMAIN callback_map[path_name] THEN 405
    ELSE 200

(* The 404 and 405 checks shared by both endpoints; 200 passes. *)
RouteCheck(path_name, method) ==
    IF path_name \notin DOMAIN callback_map THEN 404
    ELSE IF \/ method \notin DOMAIN callback_map[path_name]
            \/ get_callback_by_path(registry, <<"/">> \o path_name, method) = {}
         THEN 405
         ELSE 200

(* docker_utils.run_callback_container: the function's output is decided   *)
(* by the code built into the image and the env injected.                  *)
run_callback_container(image_name, env_vars) ==
    IF image_name \in DOMAIN images
    THEN [image |-> image_name, code |-> images[image_name], env |-> env_vars]
    ELSE [image |-> image_name, code |-> "LambdaError", env |-> env_vars]

NoResult == [image |-> << >>, code |-> "none", env |-> "none"]

Response(endpoint, path_name, method, key, code, backend, hit, result) ==
    [op |-> "dispatch", endpoint |-> endpoint, path_name |-> path_name,
     method |-> method, key |-> key, code |-> code, backend |-> backend,
     hit |-> hit, result |-> result]

(* Mutant of execute_callback: an entry is dropped from the cache once it *)
(* has been served.                                                        *)
execute_callback_evicts_hit(path_name, method, query_params, body, bc) ==
    LET check == RouteCheck(path_name, method)
        key == _generate_cache_key(path_name, method, query_params,
                                   ParseBody(method, body))
    IN  IF check # 200
        THEN /\ ret' = Response("docker", path_name, method, key, check,
                                "none", FALSE, NoResult)
             /\ UNCHANGED << registry, callback_map, building_callbacks,
                             tasks, images, docker_cache, kube_cache >>
        ELSE IF key \in DOMAIN docker_cache
        THEN /\ ret' = Response("docker", path_name, method, key, 200,
                                "none", TRUE, docker_cache[key])
             /\ docker_cache' = DictDel(docker_cache, key)
             /\ UNCHANGED << registry, callback_map, building_callbacks,
                             tasks, images, kube_cache >>
        ELSE \E callback \in get_callback_by_path(registry,
                                 <<"/">> \o path_name, method) :
               LET result == run_callback_container(
                                 callback_map[path_name][method],
                                 registry[callback].env)
               IN  /\ IF bc = "delivered"
                      THEN /\ docker_cache' = DictSet(docker_cache, key, result)
                           /\ ret' = Response("docker", path_name, method, key,
                                              200, "docker", FALSE, result)
                      ELSE \* broadcast(result) raised: HTTP 500, nothing stored
                           /\ UNCHANGED docker_cache
                           /\ ret' = Response("docker", path_name, method, key,
                                              500, "docker", FALSE, NoResult)
                   /\ UNCHANGED << registry, callback_map, building_callbacks,
                                   tasks, images, kube_cache >>

execute_callback(path_name, method, query_params, body, bc) ==
    LET check == RouteCheck(path_name, method)
        key == _generate_cache_key(path_name, method, query_params,
                                   ParseBody(method, body))
    IN  IF check # 200
        THEN /\ ret' = Response("docker", path_name, method, key, check,
                                "none", FALSE, NoResult)
             /\ UNCHANGED << registry, callback_map, building_callbacks,
                             tasks, images, docker_cache, kube_cache >>
        ELSE IF key \in DOMAIN docker_cache
        THEN /\ ret' = Response("docker", path_name, method, key, 200,
                                "none", TRUE, docker_cache[key])
             /\ UNCHANGED << registry, callback_map, building_callbacks,
                             tasks, images, docker_cache, kube_cache >>
        ELSE \E callback \in get_callback_by_path(registry,
                                 <<"/">> \o path_name, method) :
               LET result == run_callback_container(
                                 callback_map[path_name][method],
                                 registry[callback].env)
               IN  /\ IF bc = "delivered"
                      THEN /\ docker_cache' = DictSet(docker_cache, key, result)
                           /\ ret' = Response("docker", path_name, method, key,
                                              200, "docker", FALSE, result)
                      ELSE \* broadcast(result) raised: HTTP 500, nothing stored
                           /\ UNCHANGED docker_cache
                           /\ ret' = Response("docker", path_name, method, key,
                                              500, "docker", FALSE, NoResult)
                   /\ UNCHANGED << registry, callback_map, building_callbacks,
                                   tasks, images, kube_cache >>

(* kube_utils.run_lambda_job takes (image_name, session_id, event_data);   *)
(* the dispatcher passes env_vars= as well, which raises TypeError before  *)
(* any job is submitted.                                                   *)
run_lambda_job(image_name, env_vars) == "TypeError"

execute_kube_callback(path_name, method, query_params, body) ==
    LET check == RouteCheck(path_name, method)
        key == _generate_cache_key(path_name, method, query_params,
                                   ParseBody(method, body))
    IN  /\ IF check # 200
           THEN ret' = Response("kube", path_name, method, key, check,
                                "none", FALSE, NoResult)
           ELSE IF key \in DOMAIN kube_cache
           THEN ret' = Response("kube", path_name, method, key, 200,
                                "none", TRUE, kube_cache[key])
           ELSE \* run_lambda_job raises: HTTP 500, nothing stored
                ret' = Response("kube", path_name, method, key, 500,
                                "none", FALSE, NoResult)
        /\ UNCHANGED << registry, callback_map, building_callbacks, tasks,
                        images, docker_cache, kube_cache >>

(* Mutant of Restart: the route table survives the restart.                *)
Restart_keeps_routes ==
    /\ building_callbacks' = EmptyDict
    /\ tasks' = EmptyBag
    /\ docker_cache' = EmptyDict
    /\ kube_cache' = EmptyDict
    /\ ret' = [op |-> "restart"]
    /\ UNCHANGED << registry, images, callback_map >>

(***************************************************************************)
(* A restart of the gateway process: the module-level dicts start empty,   *)
(* scheduled tasks are gone; the database and the image store persist.     *)
(***************************************************************************)
Restart ==
    /\ callback_map' = EmptyDict
    /\ building_callbacks' = EmptyDict
    /\ tasks' = EmptyBag
    /\ docker_cache' = EmptyDict
    /\ kube_cache' = EmptyDict
    /\ ret' = [op |-> "restart"]
    /\ UNCHANGED << registry, images >>

(***************************************************************************)
(* The specification.                                                      *)
(***************************************************************************)
(* what the gateway's handlers and the abstract build task leave alone *)
otherVars == << channelVars, execVars, buildVars, historyVars >>

(* a registration is attempted while an id is left, or when its            *)
(* (path, method) is taken and no row can be added                         *)
CanRegister(path, method, max_id) ==
    \/ NextId(registry) <= max_id
    \/ \E i \in DOMAIN registry :
          registry[i].path = path /\ registry[i].method = method

Next ==
    \/ \E path \in Paths, method \in Methods, code \in Codes, env \in Envs :
          /\ CanRegister(path, method, MaxId)
          /\ register_callback(path, method, code, env)
          /\ UNCHANGED otherVars
    \/ \E id \in Ids, req \in UpdateRequests :
          update_callback(id, req) /\ UNCHANGED otherVars
    \/ \E id \in Ids :
          delete_callback(id) /\ UNCHANGED otherVars
    \/ \E id \in Ids :
          delete_chatroom(id) /\ UNCHANGED otherVars
    \/ \E id \in Ids, c_type \in ContainerTypes :
          /\ BagCardinality(tasks) < MaxTasks
          /\ deploy_callback_docker(id, c_type)
          /\ UNCHANGED otherVars
    \/ \E id \in Ids :
          undeploy_callback(id) /\ UNCHANGED otherVars
    \/ \E t \in BagToSet(tasks), outcome \in StartOutcomes :
          BuildStart(t, outcome) /\ UNCHANGED otherVars
    \/ \E t \in BagToSet(tasks), exit_code \in {0, 1}, raised \in BOOLEAN :
          BuildFinish(t, exit_code, raised)
          /\ UNCHANGED otherVars
    \/ \E path_name \in PathNames, method \in Methods, query \in Queries,
          body \in Bodies, bc \in BroadcastOutcomes :
          execute_callback(path_name, method, query, body, bc)
          /\ UNCHANGED otherVars
    \/ \E path_name \in PathNames, method \in Methods, query \in Queries,
          body \in Bodies :
          execute_kube_callback(path_name, method, query, body)
          /\ UNCHANGED otherVars
    \/ Restart /\ UNCHANGED otherVars

Spec == Init /\ [][Next]_vars


(***************************************************************************)
(* The registry alone, with several callbacks: register, update of path    *)
(* or method, delete.                                                      *)
(***************************************************************************)
RegistryUpdates ==
    { r \in UpdateRequests : r.code = {} /\ r.env = {} /\ r.status = {} }

RegistryNext ==
    \/ \E path \in Paths, method \in Methods :
          /\ CanRegister(path, method, MaxRegIds)
          /\ register_callback(path, method, "v1", "e1")
          /\ UNCHANGED otherVars
    \/ \E id \in 1..MaxRegIds, req \in RegistryUpdates :
          update_callback(id, req) /\ UNCHANGED otherVars
    \/ \E id \in 1..MaxRegIds :
          delete_callback(id) /\ UNCHANGED otherVars

SpecRegistry == Init /\ [][RegistryNext]_vars

(***************************************************************************)
(* The local executor, docker_utils.run_callback_container, with the       *)
(* container process it starts.  The call is synchronous: nothing of the   *)
(* gateway runs between Popen and the return.                              *)
(***************************************************************************)
(* models.lambda_model.LambdaStatusCode *)
SUCCESS == 200
JSON_PARSE_ERROR == 400
LAMBDA_ERROR == 500
TIMEOUT == 504

(* what communicate(timeout=30) and json.loads can end in: the runner      *)
(* printed its result (handler returned / handler raised), stdout is not   *)
(* JSON, the wait expired, any other exception                             *)
CommunicateOutcomes ==
    { "handler_returned", "handler_raised", "not_json", "timeout", "fault" }

(* the dict the call returns: its keys and its status code *)
ExecResult(outcome) ==
    IF outcome = "handler_returned"
    THEN [keys |-> {"lambdaStatusCode", "body"}, status |-> SUCCESS]
    ELSE IF outcome = "handler_raised"
    THEN [keys |-> {"lambdaStatusCode", "body"}, status |-> LAMBDA_ERROR]
    ELSE IF outcome = "not_json"
    THEN [keys |-> {"lambda_status_code", "body"}, status |-> JSON_PARSE_ERROR]
    ELSE IF outcome = "timeout"
    THEN [keys |-> {"lambda_status_code", "body"}, status |-> TIMEOUT]
    ELSE [keys |-> {"lambda_status_code", "body"}, status |-> LAMBDA_ERROR]

(* state of the `docker run` process when the call returns.  communicate() *)
(* returns output only after the process has exited; on TimeoutExpired the *)
(* code calls terminate(), which sends SIGTERM and does not wait, so the   *)
(* process may or may not be gone.                                         *)
ProcessStatesAtReturn(outcome) ==
    IF outcome = "timeout" THEN { "running", "exited" } ELSE { "exited" }

RunCallbackContainer(image_name, event, env_vars, outcome) ==
    LET session_id == Cardinality(DOMAIN containers) + 1
    IN  /\ session_id <= MaxRuns
        /\ \E state \in ProcessStatesAtReturn(outcome) :
              containers' = DictSet(containers, session_id,
                  [image |-> image_name, event |-> event, env |-> env_vars,
                   state |-> state])
        /\ ret' = [op |-> "run", session |-> session_id,
                   outcome |-> outcome, result |-> ExecResult(outcome)]

(* a container left running after a timeout ends on its own *)
ContainerExits(session_id) ==
    /\ session_id \in DOMAIN containers
    /\ containers[session_id].state = "running"
    /\ containers' = [containers EXCEPT ![session_id].state = "exited"]
    /\ ret' = [op |-> "exit", session |-> session_id]

ExecNext ==
    \/ \E id \in Ids, body \in Bodies, env \in Envs,
          outcome \in CommunicateOutcomes :
          RunCallbackContainer(ImageName(id), body, env, outcome)
          /\ UNCHANGED << gatewayVars, channelVars, buildVars,
                          historyVars >>
    \/ \E session_id \in 1..MaxRuns :
          ContainerExits(session_id)
          /\ UNCHANGED << gatewayVars, channelVars, buildVars,
                          historyVars >>

SpecExec == Init /\ [][ExecNext]_vars

(***************************************************************************)
(* The build progress channel: broadcast_utils.broadcast and the           *)
(* /ws/deploy handler.  A broadcast is suspended at each                   *)
(* `await ws.send_json`; whatever lies between two awaits is one step.     *)
(***************************************************************************)
Observers == { "w1", "w2" }
Publishers == { "p1", "p2" }
Messages == { "m1", "m2" }
SendOutcomes == { "sent", "failed" }

(* `for ws in dead: connected_websockets.remove(ws)`: the set that is left *)
(* and whether a remove raised KeyError                                    *)
RECURSIVE RemoveDead(_, _)
RemoveDead(connected, dead) ==
    IF dead = << >> THEN [set |-> connected, error |-> "none"]
    ELSE IF Head(dead) \notin connected
    THEN [set |-> connected, error |-> "KeyError"]
    ELSE RemoveDead(connected \ {Head(dead)}, Tail(dead))

(* The loop from the top of an iteration to the next await or to the end   *)
(* of broadcast.  The set iterator raises RuntimeError when the size of    *)
(* the set differs from the size at the start of the loop; it yields an    *)
(* element not visited so far.                                             *)
BroadcastContinue(p, frame) ==
    IF Cardinality(connected_websockets) # frame.used
    THEN /\ publishers' = DictDel(publishers, p)
         /\ ret' = [op |-> "publish", publisher |-> p, error |-> "RuntimeError",
                    message |-> frame.message, start |-> frame.start,
                    sent |-> frame.sent, dead |-> frame.dead]
         /\ UNCHANGED connected_websockets
    ELSE IF frame.todo \cap connected_websockets = {}
    THEN LET removal == RemoveDead(connected_websockets, frame.dead)
         IN  /\ connected_websockets' = removal.set
             /\ publishers' = DictDel(publishers, p)
             /\ ret' = [op |-> "publish", publisher |-> p,
                        error |-> removal.error,
                        message |-> frame.message, start |-> frame.start,
                        sent |-> frame.sent, dead |-> frame.dead]
    ELSE \E ws \in frame.todo \cap connected_websockets :
            /\ publishers' = DictSet(publishers, p,
                  [frame EXCEPT !.sending = ws, !.todo = frame.todo \ {ws}])
            /\ ret' = [op |-> "sending", publisher |-> p, ws |-> ws]
            /\ UNCHANGED connected_websockets

(* broadcast(message) is called *)
broadcast(p, message) ==
    /\ p \notin DOMAIN publishers
    /\ BroadcastContinue(p,
          [message |-> message,
           used |-> Cardinality(connected_websockets),
           start |-> connected_websockets,
           todo |-> connected_websockets,
           sending |-> "none", sent |-> {}, dead |-> << >>])
    /\ UNCHANGED << received, ws_handlers >>

(* `await ws.send_json(message)` ends, delivered or with an exception that *)
(* the bare except turns into dead.append(ws)                              *)
SendJsonEnds(p, outcome) ==
    /\ p \in DOMAIN publishers
    /\ LET frame == publishers[p]
           ws == frame.sending
       IN  IF outcome = "sent"
           THEN /\ received' = received \cup { << ws, frame.message >> }
                /\ BroadcastContinue(p,
                      [frame EXCEPT !.sent = frame.sent \cup {ws}])
           ELSE /\ UNCHANGED received
                /\ BroadcastContinue(p,
                      [frame EXCEPT !.dead = Append(frame.dead, ws)])
    /\ UNCHANGED ws_handlers

(* ws_deploy: accept, connected_websockets.add(websocket) *)
ws_deploy_connect(ws) ==
    /\ ws \notin DOMAIN ws_handlers
    /\ ws_handlers' = DictSet(ws_handlers, ws, "open")
    /\ connected_websockets' = connected_websockets \cup {ws}
    /\ ret' = [op |-> "connect", ws |-> ws]
    /\ UNCHANGED << publishers, received >>

(* ws_deploy: receive_text raised; finally connected_websockets.remove(ws) *)
ws_deploy_disconnect(ws) ==
    /\ ws \in DOMAIN ws_handlers
    /\ ws_handlers[ws] = "open"
    /\ ws_handlers' = DictSet(ws_handlers, ws, "closed")
    /\ connected_websockets' = connected_websockets \ {ws}
    /\ ret' = [op |-> "disconnect", ws |-> ws,
               error |-> IF ws \in connected_websockets THEN "none"
                                                       ELSE "KeyError"]
    /\ UNCHANGED << publishers, received >>

ChannelNext ==
    \/ \E p \in Publishers, message \in Messages :
          broadcast(p, message)
          /\ UNCHANGED << gatewayVars, execVars, buildVars, historyVars >>
    \/ \E p \in Publishers, outcome \in SendOutcomes :
          SendJsonEnds(p, outcome)
          /\ UNCHANGED << gatewayVars, execVars, buildVars, historyVars >>
    \/ \E ws \in Observers :
          ws_deploy_connect(ws)
          /\ UNCHANGED << gatewayVars, execVars, buildVars, historyVars >>
    \/ \E ws \in Observers :
          ws_deploy_disconnect(ws)
          /\ UNCHANGED << gatewayVars, execVars, buildVars, historyVars >>

SpecChannel == Init /\ [][ChannelNext]_vars

(***************************************************************************)
(* The build task in detail: deploy._build_and_register_callback around    *)
(* docker_utils.build_callback_image_background.  The builder is split at  *)
(* its awaits: the start event, the events up to the start of              *)
(* `docker build`, and the end of `docker build`.  A step ends with the    *)
(* broadcasts of its segment, whose outcome is the channel's.              *)
(***************************************************************************)
MaxDirs == 2          \* temporary directories on disk

(* A message handed to broadcast(): the keys of the dict, and the values   *)
(* of "type" and "status" ("none": the dict has no such key).              *)
Message(keys, type, status) ==
    [keys |-> keys, type |-> type, status |-> status]

StatusEvent(status) == Message({"type", "status", "message"}, "status", status)
LogEvent == Message({"type", "message"}, "log", "none")
ErrorEvent == Message({"type", "message"}, "error", "none")
(* docker_utils L173: {"status": "building", "message": ...} *)
BuildingEvent == Message({"status", "message"}, "none", "building")
(* api L159: broadcast(result), the dict run_callback_container returned *)
ResultEvent == Message({"lambda_status_code", "body"}, "none", "none")

Elements(seq) == { seq[i] : i \in DOMAIN seq }

(* tempfile.mkdtemp: a directory name not in use *)
mkdtemp(dirs) ==
    CHOOSE n \in 1..(Cardinality(dirs) + 1) :
        n \notin dirs /\ \A m \in 1..(n - 1) : m \in dirs

MkdtempOutcomes == { "created", "OSError" }

(* What the builder hands back: a returned status ("success", "failed") or *)
(* "exception" when it raised; the events delivered; whether the cluster   *)
(* image importer was called; how `docker build` exited ("none": it was    *)
(* not run, "zero", "nonzero").                                            *)
Outcome(status, published, imported) ==
    [status |-> status, published |-> published, imported |-> imported,
     exit_code |-> "none"]

(* `except Exception` of the builder: the error event is published, and    *)
(* the builder returns failed unless that broadcast raises as well.        *)
HandleException(published, imported, bc) ==
    IF bc = "delivered"
    THEN Outcome("failed", Append(published, ErrorEvent), imported)
    ELSE Outcome("exception", published, imported)

Frame(t, tmp, published, pc) ==
    [task |-> t, tmp |-> tmp, published |-> published, pc |-> pc]

(* Mutant of TaskEnds: the finally clause is missing.                      *)
TaskEnds_entry_kept(t, out, tmp) ==
    /\ IF out.status = "success"
       THEN /\ callback_map' =
                   UpsertRoute(callback_map, normalize_path(t.path),
                               t.method, ImageName(t.id))
            /\ registry' = SetStatus(registry, t.id, "deployed")
       ELSE /\ registry' = SetStatus(registry, t.id, "failed")
            /\ UNCHANGED callback_map
    /\ building_callbacks' =
          DictSet(building_callbacks, t.id, ImageName(t.id))
    /\ tasks' = tasks (-) SetToBag({t})
    /\ events' = events \cup Elements(out.published)
    /\ ret' = [op |-> "build", id |-> t.id, result |-> out.status,
               path |-> t.path, method |-> t.method, c_type |-> t.c_type,
               published |-> out.published, imported |-> out.imported,
               exit_code |-> out.exit_code, tmp |-> tmp]

(* The task once the builder has returned or raised: the route and the     *)
(* status, the except clause, the finally clause.  tmp is the directory    *)
(* the builder created, 0 when it created none.                            *)
TaskEnds(t, out, tmp) ==
    /\ IF out.status = "success"
       THEN /\ callback_map' =
                   UpsertRoute(callback_map, normalize_path(t.path),
                               t.method, ImageName(t.id))
            /\ registry' = SetStatus(registry, t.id, "deployed")
       ELSE /\ registry' = SetStatus(registry, t.id, "failed")
            /\ UNCHANGED callback_map
    /\ building_callbacks' = DictDel(building_callbacks, t.id)
    /\ tasks' = tasks (-) SetToBag({t})
    /\ events' = events \cup Elements(out.published)
    /\ ret' = [op |-> "build", id |-> t.id, result |-> out.status,
               path |-> t.path, method |-> t.method, c_type |-> t.c_type,
               published |-> out.published, imported |-> out.imported,
               exit_code |-> out.exit_code, tmp |-> tmp]

(* The task starts: the building entry, mkdtemp and the start event, which *)
(* both precede the builder's try.                                         *)
BuilderStart(t, mk, bc) ==
    /\ t \in BagToSet(tasks)
    /\ t.pc = "queued"
    /\ LET dir == mkdtemp(tmp_dirs)
       IN  IF mk = "OSError"
           THEN /\ TaskEnds(t, Outcome("exception", << >>, FALSE), 0)
                /\ UNCHANGED << tmp_dirs, builders >>
           ELSE IF bc = "raised"
           THEN \* raised outside the try: neither except nor finally runs
                /\ tmp_dirs' = tmp_dirs \cup {dir}
                /\ TaskEnds(t, Outcome("exception", << >>, FALSE), dir)
                /\ UNCHANGED builders
           ELSE /\ tmp_dirs' = tmp_dirs \cup {dir}
                /\ building_callbacks' =
                      DictSet(building_callbacks, t.id, ImageName(t.id))
                /\ tasks' = (tasks (-) SetToBag({t}))
                            (+) SetToBag({ [t EXCEPT !.pc = "building"] })
                /\ builders' = builders \cup
                      { Frame([t EXCEPT !.pc = "building"], dir,
                              << StatusEvent("start") >>, "started") }
                /\ events' = events \cup { StatusEvent("start") }
                /\ ret' = [op |-> "build", id |-> t.id, result |-> "running"]
                /\ UNCHANGED << registry, callback_map >>
    /\ UNCHANGED << images, docker_cache, kube_cache >>

(* Inside the try, up to the start of `docker build`: the runtime check,   *)
(* the files, the log events and the building event.  bc is the outcome of *)
(* the broadcasts of the segment, bc2 of the one in the except clause.     *)
BuilderPrepare(f, runtime_known, bc, bc2) ==
    /\ f \in builders
    /\ f.pc = "started"
    /\ IF runtime_known /\ bc = "delivered"
       THEN /\ builders' = (builders \ {f}) \cup
                  { [f EXCEPT !.pc = "docker_build",
                              !.published = f.published
                                  \o << LogEvent, BuildingEvent >>] }
            /\ events' = events \cup { LogEvent, BuildingEvent }
            /\ ret' = [op |-> "build", id |-> f.task.id,
                       result |-> "running"]
            /\ UNCHANGED << tmp_dirs, registry, callback_map,
                            building_callbacks, tasks >>
       ELSE LET out == IF bc = "delivered"
                       THEN \* unknown runtime: error event, return failed
                            Outcome("failed",
                                    Append(f.published, ErrorEvent), FALSE)
                       ELSE HandleException(f.published, FALSE, bc2)
            IN  /\ tmp_dirs' = tmp_dirs \ {f.tmp}      \* finally: rmtree
                /\ builders' = builders \ {f}
                /\ TaskEnds(f.task, out, f.tmp)
    /\ UNCHANGED << images, docker_cache, kube_cache >>

(* Mutant of BuilderOutcome: an error of the importer is swallowed.        *)
BuilderOutcome_import_swallowed(c_type, exit_code, published, bc, bc2) ==
    LET logged == Append(published, LogEvent)
        imported == c_type = "kube" /\ bc = "delivered"
        before_result == IF imported
                         THEN Append(logged, StatusEvent("import"))
                         ELSE logged
    IN  IF bc = "raised"
        THEN HandleException(logged, FALSE, bc2)
        ELSE IF exit_code # 0
        THEN Outcome("failed", Append(before_result, ErrorEvent), imported)
        ELSE Outcome("success",
                     Append(before_result, StatusEvent("success")), imported)

(* From the end of `docker build` to the builder's return: the log lines,  *)
(* for the target kind kube the import event and the importer, then the    *)
(* exit code.  bc is the outcome of the broadcasts of the segment, bc2 of  *)
(* the one in the except clause.                                           *)
BuilderOutcome(c_type, exit_code, published, bc, bc2) ==
    LET logged == Append(published, LogEvent)
        imported == c_type = "kube" /\ bc = "delivered"
        before_result == IF imported
                         THEN Append(logged, StatusEvent("import"))
                         ELSE logged
    IN  IF bc = "raised"
        THEN HandleException(logged, FALSE, bc2)
        ELSE IF imported /\ build_kube_callback_image("image") = "TypeError"
        THEN HandleException(before_result, TRUE, bc2)
        ELSE IF exit_code # 0
        THEN Outcome("failed", Append(before_result, ErrorEvent), imported)
        ELSE Outcome("success",
                     Append(before_result, StatusEvent("success")), imported)

BuilderFinish(f, exit_code, bc, bc2) ==
    /\ f \in builders
    /\ f.pc = "docker_build"
    /\ images' = IF exit_code = 0
                 THEN DictSet(images, ImageName(f.task.id), f.task.code)
                 ELSE images
    /\ tmp_dirs' = tmp_dirs \ {f.tmp}                  \* finally: rmtree
    /\ builders' = builders \ {f}
    /\ TaskEnds(f.task,
                [BuilderOutcome(f.task.c_type, exit_code, f.published, bc, bc2)
                    EXCEPT !.exit_code = IF exit_code = 0 THEN "zero"
                                         ELSE "nonzero"],
                f.tmp)
    /\ UNCHANGED << docker_cache, kube_cache >>

(* the steps of the build tasks of one Deploy request (id, c_type) *)
BuilderStepsOf(id, c_type) ==
    \/ \E t \in BagToSet(tasks), mk \in MkdtempOutcomes,
          bc \in BroadcastOutcomes :
          /\ t.id = id
          /\ t.c_type = c_type
          /\ BuilderStart(t, mk, bc)
    \/ \E f \in builders, runtime_known \in BOOLEAN,
          bc \in BroadcastOutcomes, bc2 \in BroadcastOutcomes :
          /\ f.task.id = id
          /\ f.task.c_type = c_type
          /\ BuilderPrepare(f, runtime_known, bc, bc2)
    \/ \E f \in builders, exit_code \in {0, 1},
          bc \in BroadcastOutcomes, bc2 \in BroadcastOutcomes :
          /\ f.task.id = id
          /\ f.task.c_type = c_type
          /\ BuilderFinish(f, exit_code, bc, bc2)

(* the steps of the build tasks, run by the event loop *)
BuilderSteps ==
    \E id \in Ids, c_type \in ContainerTypes : BuilderStepsOf(id, c_type)

(* an accepted Deploy or Undeploy is the last call for its id *)
Called(op) ==
    IF ret'.code = 200
    THEN last_call' = DictSet(last_call, ret'.id, op)
    ELSE UNCHANGED last_call

BuildNext ==
    \/ \E path \in Paths, method \in Methods :
          /\ CanRegister(path, method, MaxId)
          /\ register_callback(path, method, "v1", "e1")
          /\ UNCHANGED << channelVars, execVars, buildVars, historyVars >>
    \/ \E id \in Ids, c_type \in ContainerTypes :
          /\ BagCardinality(tasks) < MaxTasks
          /\ Cardinality(tmp_dirs) < MaxDirs
          /\ deploy_callback_docker(id, c_type)
          /\ Called("deploy")
          /\ UNCHANGED << channelVars, execVars, buildVars, kinds, deleted >>
    \/ \E id \in Ids :
          /\ undeploy_callback(id)
          /\ Called("undeploy")
          /\ UNCHANGED << channelVars, execVars, buildVars, kinds, deleted >>
    \/ BuilderSteps /\ UNCHANGED << channelVars, execVars, historyVars >>
    \/ \E path_name \in PathNames, method \in Methods,
          bc \in BroadcastOutcomes :
          /\ execute_callback(path_name, method, "q1", "{}", bc)
          /\ events' = IF ret'.backend = "docker" /\ bc = "delivered"
                       THEN events \cup { ResultEvent }
                       ELSE events
          /\ UNCHANGED << channelVars, execVars, tmp_dirs, builders,
                          historyVars >>

SpecBuild == Init /\ [][BuildNext]_vars

(* The event loop runs every scheduled task and resumes it when its await  *)
(* ends; the external build is assumed to terminate.                       *)
SpecBuildLive ==
    /\ Init
    /\ [][BuildNext]_vars
    /\ \A id \in Ids, c_type \in ContainerTypes :
          WF_vars(BuilderStepsOf(id, c_type)
                  /\ UNCHANGED << channelVars, execVars, historyVars >>)

(***************************************************************************)
(* The dispatcher with two callbacks on one path: registration, Deploy,    *)
(* the build task and both endpoints.  `kinds` remembers the target kind   *)
(* of the build that inserted each route.                                  *)
(***************************************************************************)
MaxEnvIds == 2
DispatchEnvs == { "e1", "e2" }

DispatchNext ==
    \/ \E method \in Methods, env \in DispatchEnvs :
          /\ CanRegister(<<"/", "a">>, method, MaxEnvIds)
          /\ register_callback(<<"/", "a">>, method, "v1", env)
          /\ deleted' = IF ret'.code = 200
                        THEN deleted \ { << LStrip(ret'.path), ret'.method >> }
                        ELSE deleted
          /\ UNCHANGED << channelVars, execVars, buildVars, last_call, kinds >>
    \/ \E id \in 1..MaxEnvIds :
          /\ delete_callback(id)
          /\ deleted' = IF ret'.code = 200
                        THEN deleted \cup
                                { << LStrip(ret'.path), ret'.method >> }
                        ELSE deleted
          /\ UNCHANGED << channelVars, execVars, buildVars, last_call, kinds >>
    \/ \E id \in 1..MaxEnvIds, c_type \in ContainerTypes :
          /\ BagCardinality(tasks) < MaxTasks
          /\ deploy_callback_docker(id, c_type)
          /\ UNCHANGED otherVars
    \/ \E t \in BagToSet(tasks), outcome \in StartOutcomes :
          BuildStart(t, outcome) /\ UNCHANGED otherVars
    \/ \E t \in BagToSet(tasks), exit_code \in {0, 1} :
          /\ BuildFinish(t, exit_code, FALSE)
          /\ kinds' = IF ret'.result = "success"
                      THEN DictSet(kinds,
                                   << normalize_path(t.path), t.method >>,
                                   t.c_type)
                      ELSE kinds
          /\ UNCHANGED << channelVars, execVars, buildVars, last_call,
                          deleted >>
    \/ \E path_name \in PathNames, method \in Methods :
          execute_callback(path_name, method, "q1", "{}", "delivered")
          /\ UNCHANGED otherVars
    \/ \E path_name \in PathNames, method \in Methods :
          execute_kube_callback(path_name, method, "q1", "{}")
          /\ UNCHANGED otherVars

SpecDispatch == Init /\ [][DispatchNext]_vars

(***************************************************************************)
(* Properties.                                                             *)
(***************************************************************************)

IsDispatch == ret.op = "dispatch"

(* (path_name, method) has an entry in the route table *)
Routed(path_name, method) ==
    /\ path_name \in DOMAIN callback_map
    /\ method \in DOMAIN callback_map[path_name]

(* the cache of the endpoint a dispatch arrived on *)
CacheOf(endpoint) == IF endpoint = "docker" THEN docker_cache ELSE kube_cache

(* C1: for a registered callback (p, m) whose build succeeded -- status
   deployed, route entry (p stripped, m) naming its image -- a dispatch of m
   to p is never answered with 404 or 405. *)
C1_DeployedDispatchNot404Or405 ==
    (/\ IsDispatch
     /\ ret.endpoint = "docker"
     /\ \E id \in DOMAIN registry :
           /\ LStrip(registry[id].path) = ret.path_name
           /\ registry[id].method = ret.method
           /\ registry[id].status = "deployed"
           /\ Routed(ret.path_name, ret.method)
           /\ callback_map[ret.path_name][ret.method] = ImageName(id))
    => ret.code \notin {404, 405}

(* C2: when Undeploy(id) has returned for the callback (p, m), the route
   table has no entry for (p stripped, m) and the status is undeployed. *)
C2_UndeployRemovesRoute ==
    (ret.op = "undeploy" /\ ret.code = 200)
    => /\ ~Routed(LStrip(ret.path), ret.method)
       /\ ret.id \in DOMAIN registry
       /\ registry[ret.id].status = "undeployed"

(* C3: a dispatch to a path with no route-table entry returns 404, a
   dispatch to a routed path with a method not among its methods returns
   405, and in both cases no backend is invoked (either endpoint). *)
C3_UnroutedIs404Or405 ==
    IsDispatch =>
        /\ (ret.path_name \notin DOMAIN callback_map)
              => (ret.code = 404 /\ ret.backend = "none" /\ ~ret.hit)
        /\ (/\ ret.path_name \in DOMAIN callback_map
            /\ ret.method \notin DOMAIN callback_map[ret.path_name])
              => (ret.code = 405 /\ ret.backend = "none" /\ ~ret.hit)

C3_Witness ==
    /\ IsDispatch
    /\ ret.code = 405
    /\ ret.path_name \in DOMAIN callback_map
    /\ ret.method \notin DOMAIN callback_map[ret.path_name]
    /\ get_callback_by_path(registry, <<"/">> \o ret.path_name, ret.method) # {}

(* C4: a dispatch whose (path, method) is in the route table while the
   registry has no row with that path and that method returns 405 and
   invokes no backend. *)
C4_NoRegistryMatchIs405 ==
    (/\ IsDispatch
     /\ Routed(ret.path_name, ret.method)
     /\ ~ \E id \in DOMAIN registry :
            /\ LStrip(registry[id].path) = ret.path_name
            /\ registry[id].method = ret.method)
    => (ret.code = 405 /\ ret.backend = "none")

(* C5: a dispatch that passes the route checks and misses the cache
   executes the function and leaves its result stored under the request's
   key, so that an identical request is answered from the cache. *)
C5_MissExecutesAndStores ==
    (IsDispatch /\ ret.code \notin {404, 405} /\ ~ret.hit)
    => /\ ret.backend # "none"
       /\ ret.key \in DOMAIN CacheOf(ret.endpoint)
       /\ CacheOf(ret.endpoint)[ret.key] = ret.result

(* C6: immediately after every accepted update and every accepted deletion
   both result caches are empty. *)
C6_CachesEmptyAfterUpdateOrDelete ==
    (ret.op \in {"update", "delete"} /\ ret.code = 200)
    => (docker_cache = EmptyDict /\ kube_cache = EmptyDict)

(* C7: the result a dispatch returns, fresh or cached, was computed by the
   version of the function held by the image currently routed for its
   (path, method). *)
C7_ResultOfRoutedVersion ==
    (IsDispatch /\ ret.code = 200)
    => ret.result.code = images[callback_map[ret.path_name][ret.method]]

(* C8: a Deploy that finds the callback returns the record with status
   build, has set that status, has only scheduled the build task (it has not
   run) and has left the route table unchanged. *)
C8_DeployReturnsBeforeBuild ==
    [][ (ret'.op = "deploy" /\ ret'.code = 200)
        => /\ ret'.status = "build"
           /\ registry'[ret'.id].status = "build"
           /\ callback_map' = callback_map
           /\ images' = images
           /\ BagCardinality(tasks') = BagCardinality(tasks) + 1
           /\ \E t \in BagToSet(tasks') : t.id = ret'.id /\ t.pc = "queued"
      ]_vars

C8_Witness ==
    /\ ret.op = "deploy"
    /\ ret.code = 200
    /\ callback_map # EmptyDict
    /\ registry[ret.id].status = "build"

(* C9: when the build task has finished successfully, the route table maps
   (path without its leading separator, method) to the image callback_<id>,
   and the status of the callback is deployed. *)
C9_SuccessRegistersRoute ==
    (ret.op = "build" /\ ret.result = "success")
    => /\ Routed(LStrip(ret.path), ret.method)
       /\ callback_map[LStrip(ret.path)][ret.method] = ImageName(ret.id)
       /\ (ret.id \in DOMAIN registry
             => registry[ret.id].status = "deployed")

C9_Witness ==
    /\ ret.op = "build"
    /\ ret.result = "success"
    /\ ret.path = <<"/", "a">>
    /\ ret.id \in DOMAIN registry
    /\ registry[ret.id].status = "deployed"

(* C10: a step of the build task that is not its successful end leaves the
   route table as it was, and when the task ends in a failure the status of
   the callback is failed. *)
C10_FailureKeepsRoutes ==
    [][ (ret'.op = "build" /\ ret'.result # "success")
        => /\ callback_map' = callback_map
           /\ (ret'.result \in {"failed", "exception"}
                 /\ ret'.id \in DOMAIN registry')
                 => registry'[ret'.id].status = "failed"
      ]_vars

C10_Witness ==
    /\ ret.op = "build"
    /\ ret.result \in {"failed", "exception"}
    /\ callback_map # EmptyDict
    /\ ret.id \in DOMAIN registry
    /\ registry[ret.id].status = "failed"

(* C11: Deploy or Undeploy for an id that is not in the registry is
   answered 404 and changes nothing: registry, route table, build-in-progress
   set, scheduled tasks, images and caches are as before. *)
C11_UnknownIdIs404 ==
    [][ (ret'.op \in {"deploy", "undeploy"} /\ ret'.id \notin DOMAIN registry)
        => (ret'.code = 404 /\ UNCHANGED gatewayVars)
      ]_vars

C11_Witness ==
    /\ ret.op = "deploy"
    /\ ret.code = 404
    /\ ret.id \notin DOMAIN registry
    /\ callback_map # EmptyDict
    /\ tasks = EmptyBag

(* C12: Undeploy is idempotent: in the state an Undeploy(id) has just
   produced, a second Undeploy(id) removes nothing from the route table and
   writes the status that is already there, undeployed. *)
C12_UndeployIdempotent ==
    (ret.op = "undeploy" /\ ret.code = 200)
    => /\ ret.id \in DOMAIN registry
       /\ registry[ret.id].status = "undeployed"
       /\ RemoveRoute(callback_map, registry[ret.id].path,
                      registry[ret.id].method) = callback_map
       /\ SetStatus(registry, ret.id, "undeployed") = registry

C12_Witness ==
    /\ ret.op = "undeploy"
    /\ ret.code = 200
    /\ registry[ret.id].status = "undeployed"
    /\ ImageName(ret.id) \in DOMAIN images
    /\ ~Routed(LStrip(ret.path), ret.method)

(* C13: the status of a callback changes only along the edges
   pending->build, build->deployed, build->failed, deployed->undeployed,
   undeployed->build and failed->build. *)
C13_StatusEdges ==
    [][ LET edges == { <<"pending", "build">>, <<"build", "deployed">>,
                       <<"build", "failed">>, <<"deployed", "undeployed">>,
                       <<"undeployed", "build">>, <<"failed", "build">> }
        IN  \A id \in (DOMAIN registry) \cap (DOMAIN registry') :
               registry'[id].status # registry[id].status
               => << registry[id].status, registry'[id].status >> \in edges
      ]_vars

(* C14: a registration whose (path, method) equals that of an existing
   callback is rejected with 409 and leaves the registry unchanged, however
   many callbacks share the path. *)
C14_DuplicateIs409 ==
    [][ (/\ ret'.op = "register"
         /\ \E i \in DOMAIN registry :
               /\ registry[i].path = ret'.path
               /\ registry[i].method = ret'.method)
        => (ret'.code = 409 /\ registry' = registry)
      ]_vars

(* C15: in every reachable state of the registry no two distinct callbacks
   have the same (path, method). *)
C15_UniquePathMethod ==
    \A i, j \in DOMAIN registry :
        (registry[i].path = registry[j].path
           /\ registry[i].method = registry[j].method) => i = j

C15_Witness ==
    /\ ret.op \in {"register", "update"}
    /\ ret.code \in {409, 500}
    /\ \E i, j \in DOMAIN registry :
          /\ i # j
          /\ registry[i].path = registry[j].path
          /\ registry[i].method # registry[j].method

(* C16: route table operations.  The upsert made by a successful build
   makes (path, method) map to exactly its target and leaves every other
   entry as it was; a removal that takes the last method of a path takes the
   path; and after every step no path maps to an empty method set. *)
C16_RouteTableOps ==
    [][ /\ \A p \in DOMAIN callback_map' : DOMAIN callback_map'[p] # {}
        /\ (ret'.op = "build" /\ ret'.result = "success")
           => LET p == LStrip(ret'.path)
                  m == ret'.method
              IN  /\ p \in DOMAIN callback_map'
                  /\ m \in DOMAIN callback_map'[p]
                  /\ callback_map'[p][m] = ImageName(ret'.id)
                  /\ \A q \in DOMAIN callback_map :
                        \A n \in DOMAIN callback_map[q] :
                           << q, n >> # << p, m >>
                           => /\ q \in DOMAIN callback_map'
                              /\ n \in DOMAIN callback_map'[q]
                              /\ callback_map'[q][n] = callback_map[q][n]
        /\ (/\ ret'.op \in {"undeploy", "delete"}
            /\ ret'.code = 200
            /\ ret'.path \in DOMAIN callback_map
            /\ DOMAIN callback_map[ret'.path] = {ret'.method})
           => ret'.path \notin DOMAIN callback_map'
      ]_vars

C16_Witness ==
    /\ ret.op = "build"
    /\ ret.result = "success"
    /\ LStrip(ret.path) \in DOMAIN callback_map
    /\ DOMAIN callback_map[LStrip(ret.path)] = {"GET", "POST"}

(* C17: when the container does not end within the 30 seconds, the local
   executor returns the Timeout result, in the shape of every other
   execution result, and the container process has ended when it returns. *)
C17_TimeoutResultAndTermination ==
    (ret.op = "run" /\ ret.outcome = "timeout")
    => /\ ret.result.status = TIMEOUT
       /\ \A o \in CommunicateOutcomes : ExecResult(o).keys = ret.result.keys
       /\ containers[ret.session].state = "exited"

(* C18: on the cluster endpoint a dispatch that gets to the backend is
   answered with a structured execution result, never with an HTTP 5xx. *)
C18_ClusterFaultIsStructured ==
    (IsDispatch /\ ret.endpoint = "kube") => ret.code < 500

(* C19: a Publish ends without an error raised to the publisher, having
   tried every observer connected when it started; the observers whose
   delivery failed are out of the subscriber set, the observers whose
   delivery succeeded have received the event and, unless they have
   disconnected themselves, are still in the set. *)
C19_PublishBestEffort ==
    (ret.op = "publish")
    => /\ ret.error = "none"
       /\ ret.sent \cup { ret.dead[i] : i \in DOMAIN ret.dead } = ret.start
       /\ \A i \in DOMAIN ret.dead : ret.dead[i] \notin connected_websockets
       /\ \A ws \in ret.sent :
             /\ << ws, ret.message >> \in received
             /\ ws_handlers[ws] = "open" => ws \in connected_websockets

(* C20: a restart leaves the route table empty and the registry, statuses
   included, as it was; an entry enters the route table only when a build
   task ends successfully, and a dispatch to a path without an entry - the
   path of a callback in status deployed included - is answered 404. *)
C20_RestartEmptiesRoutes ==
    [][ /\ (ret'.op = "restart")
           => (callback_map' = EmptyDict /\ registry' = registry)
        /\ \A p \in DOMAIN callback_map' :
              \A m \in DOMAIN callback_map'[p] :
                 ~Routed(p, m)
                 => /\ ret'.op = "build"
                    /\ ret'.result = "success"
                    /\ LStrip(ret'.path) = p
                    /\ ret'.method = m
        /\ (ret'.op = "dispatch" /\ ret'.path_name \notin DOMAIN callback_map)
           => (ret'.code = 404 /\ ret'.backend = "none" /\ ~ret'.hit)
      ]_vars

C20_Witness ==
    /\ ret.op = "dispatch"
    /\ ret.code = 404
    /\ callback_map = EmptyDict
    /\ ImageName(1) \in DOMAIN images
    /\ \E id \in DOMAIN registry :
          /\ registry[id].status = "deployed"
          /\ LStrip(registry[id].path) = ret.path_name
          /\ registry[id].method = ret.method

(* C21: a build task that ends without success has caught its error: the
   builder did not raise, an error event was published on the channel for
   this build, and the status of the callback is failed. *)
C21_BuildErrorCaughtAndPublished ==
    (ret.op = "build" /\ ret.result \notin {"running", "success"})
    => /\ ret.result = "failed"
       /\ ErrorEvent \in Elements(ret.published)
       /\ ret.id \in DOMAIN registry => registry[ret.id].status = "failed"

(* C22: Deploy and Undeploy calls for one id are handled one after another;
   once every build task has finished, a callback whose last accepted call
   was Undeploy is not in the route table and has status undeployed (stated
   for a path stored without a leading separator). *)
C22_LastCallWins ==
    \A id \in DOMAIN last_call :
        (/\ tasks = EmptyBag
         /\ last_call[id] = "undeploy"
         /\ id \in DOMAIN registry
         /\ registry[id].path = LStrip(registry[id].path))
        => /\ ~Routed(registry[id].path, registry[id].method)
           /\ registry[id].status = "undeployed"

(* C23: the operations that key the route table use the same normalized
   path as the insertion on build success; in particular, when a deletion
   has been accepted for the callback (p, m), the route table has no entry
   under (p stripped, m), whether or not p is stored with a leading
   separator. *)
C23_DeleteUsesNormalizedKey ==
    (ret.op = "delete" /\ ret.code = 200)
    => ~Routed(LStrip(ret.path), ret.method)

(* C24: a dispatch that misses the cache and executes the function injects
   the environment of the registry callback with the request's path and the
   request's method. *)
C24_EnvOfMatchingCallback ==
    (IsDispatch /\ ret.code = 200 /\ ~ret.hit)
    => \E id \in DOMAIN registry :
          /\ registry[id].path = <<"/">> \o ret.path_name
          /\ registry[id].method = ret.method
          /\ ret.result.env = registry[id].env

(* C25: a dispatch that passes the route checks and misses the cache is
   executed by the backend of the target kind its route was deployed with,
   on either endpoint. *)
C25_BackendOfDeployedKind ==
    (/\ IsDispatch
     /\ ret.code \notin {404, 405}
     /\ ~ret.hit
     /\ << ret.path_name, ret.method >> \in DOMAIN kinds)
    => ret.backend = kinds[<< ret.path_name, ret.method >>]

(* C26: the cluster image importer is called only by a build whose target
   kind is kube, and a build in which the importer raised ends failed: the
   status is failed and the route table is left as it was, also when the
   local `docker build` had succeeded. *)
C26_ImporterOnlyForClusterAndErrorFails ==
    [][(ret'.op = "build" /\ ret'.result # "running" /\ ret'.imported)
        => /\ ret'.c_type = "kube"
           /\ build_kube_callback_image("image") = "TypeError"
                 => /\ ret'.result # "success"
                    /\ callback_map' = callback_map
                    /\ registry'[ret'.id].status = "failed"]_vars

C26_Witness ==
    /\ ret.op = "build"
    /\ ret.result = "failed"
    /\ ret.imported
    /\ ret.c_type = "kube"
    /\ ImageName(ret.id) \in DOMAIN images
    /\ registry[ret.id].status = "failed"
    /\ ~Routed(LStrip(ret.path), ret.method)

(* C27: when a build task has ended - by success, unknown runtime, non-zero
   exit code or an exception raised anywhere after the temporary directory
   was created - the temporary directory of that build no longer exists. *)
C27_TempDirRemoved ==
    (ret.op = "build" /\ ret.result # "running")
    => ret.tmp \notin tmp_dirs

(* C28: every message published on the channel carries a type tag and is a
   status event with status start, building, import or success, a log event
   or an error event. *)
C28_OnlyTaggedEvents ==
    \A m \in events :
        /\ "type" \in m.keys
        /\ m.type \in {"status", "log", "error"}
        /\ m.type = "status"
              => m.status \in {"start", "building", "import", "success"}

(* C29: a Publish interleaved with observers connecting and disconnecting
   ends without raising, and the handler of an observer, removed by a
   Publish as dead or not, leaves the subscriber set without error. *)
C29_ChurnNeverRaises ==
    /\ ret.op = "publish" => ret.error = "none"
    /\ ret.op = "disconnect" => ret.error = "none"

(* C30: every accepted Deploy eventually completes: while a build task for
   an id is scheduled or running (the external build terminates, the
   callback is not deleted), a state follows in which a task of that id has
   ended, the status of the callback is deployed or failed and the id has no
   build-in-progress entry. *)
C30_DeployEventuallyCompletes ==
    \A id \in Ids :
        (\E t \in BagToSet(tasks) : t.id = id)
        ~> (/\ ret.op = "build"
            /\ ret.id = id
            /\ ret.result \in {"success", "failed", "exception"}
            /\ registry[id].status \in {"deployed", "failed"}
            /\ id \notin DOMAIN building_callbacks)

C30_Witness ==
    /\ ret.op = "build"
    /\ ret.result = "exception"
    /\ registry[ret.id].status = "failed"
    /\ ret.id \notin DOMAIN building_callbacks
    /\ tasks = EmptyBag

(* C31: every entry of the route table belongs to a live registry callback
   in status deployed: for every routed (path, method) some registry
   callback has that normalized path and that method, is in status deployed
   and has the image the entry targets. *)
C31_RoutesBelongToDeployed ==
    \A p \in DOMAIN callback_map :
        \A m \in DOMAIN callback_map[p] :
            \E id \in DOMAIN registry :
                /\ LStrip(registry[id].path) = p
                /\ registry[id].method = m
                /\ registry[id].status = "deployed"
                /\ callback_map[p][m] = ImageName(id)

(* C32: at most one route-table entry targets the image of a callback id,
   and when Undeploy(id) has returned none does. *)
C32_OneRoutePerCallback ==
    /\ \A p1 \in DOMAIN callback_map, p2 \in DOMAIN callback_map :
          \A m1 \in DOMAIN callback_map[p1], m2 \in DOMAIN callback_map[p2] :
              callback_map[p1][m1] = callback_map[p2][m2]
                  => (p1 = p2 /\ m1 = m2)
    /\ (ret.op = "undeploy" /\ ret.code = 200)
          => \A p \in DOMAIN callback_map :
                \A m \in DOMAIN callback_map[p] :
                    callback_map[p][m] # ImageName(ret.id)

(* C33: once a callback has been deleted (and no callback has been
   registered again for its path and method), no dispatch to its path and
   method executes its image or returns a result cached for it, also when a
   callback with the same path and another method remains registered. *)
C33_DeletedNeverServed ==
    (IsDispatch /\ ret.code = 200)
    => << ret.path_name, ret.method >> \notin deleted

(* C34: a delete of a callback whose status is build is rejected with
   HTTP 400 and changes nothing: the registry, the route table, the caches
   and the scheduled build tasks stay as they were. *)
C34_DeleteDuringBuildRejected ==
    [][(/\ ret'.op = "delete"
        /\ ret'.id \in DOMAIN registry
        /\ registry[ret'.id].status = "build")
        => (ret'.code = 400 /\ UNCHANGED gatewayVars)]_vars

C34_Witness ==
    /\ ret.op = "delete"
    /\ ret.code = 400
    /\ ret.id \in DOMAIN registry
    /\ registry[ret.id].status = "build"
    /\ \E t \in BagToSet(tasks) : t.id = ret.id

(* C35: in a build whose `docker build` exited with a non-zero code the
   cluster image importer is not called and no import status event is
   published. *)
C35_NoImportAfterFailedBuild ==
    (ret.op = "build" /\ ret.result # "running" /\ ret.exit_code = "nonzero")
    => /\ ~ret.imported
       /\ StatusEvent("import") \notin Elements(ret.published)

(* C36: the events of a build are ordered: the status start event is the
   first, exactly one terminal event (status success or error) is published
   and it is the last; a success event is published only by a build that
   returns success and an error event only by one that returns failed. *)
C36_EventsOrdered ==
    (ret.op = "build" /\ ret.result # "running")
    => LET p == ret.published
           Terminal == { StatusEvent("success"), ErrorEvent }
       IN  /\ p # << >>
           /\ p[1] = StatusEvent("start")
           /\ p[Len(p)] \in Terminal
           /\ Cardinality({ i \in DOMAIN p : p[i] \in Terminal }) = 1
           /\ StatusEvent("success") \in Elements(p) => ret.result = "success"
           /\ ErrorEvent \in Elements(p) => ret.result = "failed"

(* C37: a dispatch, on either endpoint, leaves the route table and the
   registry (statuses included) as they were; a dispatch answered 404 or
   405 and a dispatch answered from the cache leave both caches as they
   were. *)
C37_DispatchFrame ==
    [][(ret'.op = "dispatch")
        => /\ callback_map' = callback_map
           /\ registry' = registry
           /\ (ret'.code \in {404, 405} \/ ret'.hit)
                 => (docker_cache' = docker_cache /\ kube_cache' = kube_cache)
      ]_vars

C37_Witness ==
    /\ IsDispatch
    /\ ret.hit
    /\ ret.code = 200
    /\ ret.key \in DOMAIN docker_cache
    /\ callback_map # EmptyDict
    /\ \E id \in DOMAIN registry : registry[id].status = "deployed"

====
